---- MODULE Spec2Model ----
(***************************************************************************)
(* A model of the Session class of aldojs/session and of the Store behind  *)
(* it.  The repository holds three revisions of the class:                 *)
(*   "ts"  - src/src/session.ts (both copies in the file behave alike),    *)
(*           whose state is a Store (src/src/store.ts) and whose payload   *)
(*           goes through the JSON serializer;                             *)
(*   "js1" - src/lib/session.js, lines 13-241;                             *)
(*   "js2" - src/lib/session.js, lines 255-511.                            *)
(* `variant` says which revision a behaviour runs; it never changes.       *)
(* Every public method is one action: callers serialize their calls on one *)
(* Session, so a handler runs from its call to the settling of the promise *)
(* it returns.  The storage adapter is the environment: what read, write   *)
(* and remove answer is chosen with \E.                                    *)
(***************************************************************************)
EXTENDS Integers, Sequences, FiniteSets, TLC

VARIABLES
  variant,    \* which revision of the class runs
  sid,        \* the id the constructor was given ("" when omitted or empty)
  id,         \* Session._id
  started,    \* Session._started
  state,      \* Session._state (the Store's mapping in "ts"), a JS value
  lifetime,   \* Session._lifetime
  dirty,      \* Session._dirty ("js2" only)
  genCount,   \* how many identifiers _generateId has handed out
  readCount,  \* how many times the adapter's read was invoked
  nops,       \* how many methods were called so far
  last,       \* the last call: its name, argument, result and adapter calls
  mrev,       \* which revision of MemoryStorage runs
  items,      \* MemoryStorage._items / _sessions: id -> [data, expires]
  now,        \* Date.now()
  mlast,      \* the last call on the MemoryStorage: its name, id and result
  committed,  \* what the last commit() that wrote has stored, and under which id
  pending,    \* how many start() calls are suspended at `await this._read()`
  heap,       \* the mapping objects in memory, by reference
  ref,        \* the reference Store._state holds
  held        \* the reference the caller holds (the constructor's argument
              \* or what toJSON() returned last)

\* the Session and its call record
svars == <<variant, sid, id, started, state, lifetime, dirty, genCount, readCount, nops, last>>
\* the Session but for the call counter and the call record
svars_but_call == <<variant, sid, id, started, state, lifetime, dirty, genCount, readCount>>
\* the in-memory adapter and its clock
mvars == <<mrev, items, now, mlast>>
\* the history of what was persisted
hvars == <<committed>>
\* the calls in flight
cvars == <<pending>>
\* the objects of the Store and of its caller
avars == <<heap, ref, held>>
\* what only the specifications of interleaved calls and of aliasing move
ovars == <<cvars, avars>>
vars == <<svars, mvars, hvars, ovars>>

\* the fields of a Session: src/src/session.ts 346-381, lib/session.js 262-272
SessionFields == <<id, started, state, lifetime, dirty>>

(***************************************************************************)
(* Bounds and input sets.                                                  *)
(***************************************************************************)
MaxOps == 3

Variants == {"ts", "js1", "js2"}
Keys == {"foo", "baz"}
Vals == {"bar", "qux"}
UNDEFINED == "undefined"

EmptyState == [k \in {} |-> "bar"]
InputStates == {EmptyState, [foo |-> "bar"], [foo |-> "qux", baz |-> "bar"]}
SidInputs == {"", "abc"}
LifetimeInputs == {1000, 5000}

TWO_HOURS == 2 * 60 * 60 * 1000

(***************************************************************************)
(* JS values that cross the adapter boundary or sit in _state.             *)
(***************************************************************************)
DUndefined == [kind |-> "undefined", val |-> EmptyState]
DNull == [kind |-> "null", val |-> EmptyState]
DObject(m) == [kind |-> "object", val |-> m]
\* the JSON text of the object m
DString(m) == [kind |-> "string", val |-> m]
\* the JSON text "null"
DNullString == [kind |-> "string:null", val |-> EmptyState]
\* a text that is no JSON
DMalformed == [kind |-> "string:malformed", val |-> EmptyState]
\* the adapter call throws (or its promise rejects)
DThrow == [kind |-> "throw", val |-> EmptyState]

\* what reset and Store.merge are called with: nothing, or a mapping
ResetArgs == {DUndefined} \cup {DObject(m) : m \in InputStates}

IsObject(v) == v.kind = "object"
\* `data == null` of JavaScript: null or undefined
IsNullish(v) == v.kind \in {"null", "undefined"}

\* an adapter call as a call-recording stub sees it
Call(fn, key, data, ttl, result) ==
  [fn |-> fn, id |-> key, data |-> data, ttl |-> ttl, result |-> result]
ReadCall(key, result) == Call("read", key, DUndefined, 0, result)
WriteCall(key, data, ttl, result) == Call("write", key, data, ttl, result)
\* a remove addressed to no session
RemoveCall_elsewhere(key, result) == Call("remove", "", DUndefined, 0, result)
RemoveCall(key, result) == Call("remove", key, DUndefined, 0, result)

\* the record of a call whose argument is a mapping (or the entry set)
LastWith(op, arg, input, ret, calls) ==
  [op |-> op, arg |-> arg, input |-> input, ret |-> ret, calls |-> calls]
Last(op, arg, ret, calls) == LastWith(op, arg, DUndefined, ret, calls)

\* the entry key: value as a mapping
Entry(key, value) == DObject([k \in {key} |-> value])

\* a parameter whose default is never applied
DefaultArg_never(arg, default) == arg

\* a parameter with a default (state = {}): the default stands in for
\* undefined only
DefaultArg(arg, default) == IF arg.kind = "undefined" THEN default ELSE arg

(***************************************************************************)
(* _generateId: uniqId(40), a 40-character random string, modelled as a    *)
(* string no earlier call returned and no caller supplied.                 *)
(***************************************************************************)
\* a generator that hands out one identifier over and over
_generateId_fixed(n) == "abc"
_generateId(n) == "g" \o ToString(n)

(***************************************************************************)
(* The default serializer, JSON.                                           *)
(***************************************************************************)
\* JSON.stringify(store): the store's toJSON() is serialized; keys whose
\* value is undefined are dropped.
JSON_stringify(v) ==
  IF IsObject(v)
    THEN DString([k \in {x \in DOMAIN v.val : v.val[x] # UNDEFINED} |-> v.val[k]])
    ELSE DNullString

\* JSON.parse(input): the input is turned into a string first, so null
\* parses to null, while undefined and an object are no JSON.
JSON_parse(v) ==
  CASE v.kind = "string" -> [ok |-> TRUE, value |-> DObject(v.val)]
    [] v.kind = "string:null" -> [ok |-> TRUE, value |-> DNull]
    [] v.kind = "null" -> [ok |-> TRUE, value |-> DNull]
    [] OTHER -> [ok |-> FALSE, value |-> DUndefined]

(***************************************************************************)
(* Store (src/src/store.ts), on the mapping held in _state.                *)
(***************************************************************************)
\* an assign in which the target's own values win
ObjectAssign_keeps(m, s) ==
  [k \in DOMAIN m \cup DOMAIN s |-> IF k \in DOMAIN m THEN m[k] ELSE s[k]]

\* Object.assign(target, source) on two mappings
ObjectAssign(m, s) ==
  [k \in DOMAIN m \cup DOMAIN s |-> IF k \in DOMAIN s THEN s[k] ELSE m[k]]

\* a set that keeps the value a key already has
Store_set_first(s, key, value) ==
  IF key \in DOMAIN s.val THEN s
  ELSE DObject([k \in DOMAIN s.val \cup {key} |-> IF k = key THEN value ELSE s.val[k]])

Store_set(s, key, value) ==
  DObject([k \in DOMAIN s.val \cup {key} |-> IF k = key THEN value ELSE s.val[k]])

\* a reset that keeps the mapping it had
Store_reset_kept(s, newState) == s
Store_reset(s, newState) == DefaultArg(newState, DObject(EmptyState))

\* an isEmpty that never looks
Store_isEmpty_always(s) == TRUE
Store_isEmpty(s) == DOMAIN s.val = {}

\* a merge that replaces the mapping
Store_merge_reset(s, newState) == newState

\* merge (state = {}): the default stands in for undefined only
Store_merge(s, newState) ==
  LET arg == DefaultArg(newState, DObject(EmptyState))
  IN IF Store_isEmpty(s)
       THEN Store_reset(s, arg)
       ELSE IF IsObject(arg) THEN DObject(ObjectAssign(s.val, arg.val)) ELSE s

Store_get(s, key) == IF key \in DOMAIN s.val THEN s.val[key] ELSE UNDEFINED

Store_has(s, key) == key \in DOMAIN s.val

\* a delete that removes nothing
Store_delete_nothing(s, key) == s
Store_delete(s, key) == DObject([k \in DOMAIN s.val \ {key} |-> s.val[k]])

Store_toJSON(s) == s

Bool(b) == IF b THEN "true" ELSE "false"

(***************************************************************************)
(* Session, src/src/session.ts.                                            *)
(***************************************************************************)
\* constructor (storage, id?): this._id = id || this._generateId()
TS_constructor_id(given, fresh) == IF given # "" THEN given ELSE fresh
\* private _started = false
TS_constructor_started(given) == FALSE

\* what the adapter's read may answer
TS_ReadOutcomes ==
  {DUndefined, DNull, DThrow, DMalformed, DNullString}
    \cup {DObject(m) : m \in InputStates} \cup {DString(m) : m \in InputStates}
AckOutcomes == {DUndefined, DThrow}

\* start () returns Promise<void>
TS_start_ret == "void"

\* a start() that loads whatever the flag says
TS_start_skips_never(isStarted) == FALSE
\* if (this._started) return
TS_start_skips(isStarted) == isStarted

\* a start() that drops the state whatever it read
TS_start_state_reset(s, out) == DObject(EmptyState)

\* the try block of start(): the state after it, the old one when it threw
TS_start_state(s, out) ==
  LET parsed == JSON_parse(out)
  IN IF out.kind # "throw" /\ parsed.ok /\ IsObject(s)
       THEN Store_merge(s, parsed.value)
       ELSE s

\* the flag after start() went past its guard
TS_start_started == TRUE

TS_start(out) ==
  /\ variant = "ts" /\ nops < MaxOps
  /\ IF TS_start_skips(started)
       THEN /\ last' = Last("start", "", TS_start_ret, <<>>)
            /\ UNCHANGED <<state, started, readCount>>
       ELSE /\ state' = TS_start_state(state, out)
            /\ started' = TS_start_started
            /\ readCount' = readCount + 1
            /\ last' = Last("start", "", TS_start_ret, <<ReadCall(id, out)>>)
  /\ nops' = nops + 1
  /\ UNCHANGED <<mvars, hvars, ovars, variant, sid, id, lifetime, dirty, genCount>>

\* a commit() that leaves the session started
TS_commit_started_kept == TRUE
\* the flag after commit() went past its guard: this._started = false
TS_commit_started == FALSE

\* commit () declares no parameter: an argument of the call is ignored
TS_commit(force, out) ==
  /\ variant = "ts" /\ nops < MaxOps
  /\ IF ~started
       THEN /\ last' = Last("commit", Bool(force), "void", <<>>)
            /\ UNCHANGED started
       ELSE /\ last' = Last("commit", Bool(force), "void",
                            <<WriteCall(id, JSON_stringify(state), lifetime, out)>>)
            /\ started' = TS_commit_started
  /\ nops' = nops + 1
  /\ UNCHANGED <<mvars, hvars, ovars, variant, sid, id, state, lifetime, dirty, genCount, readCount>>

\* regenerate (destroy = false): a throwing remove ends it before the new id
Regenerate(op, destroy, out) ==
  /\ IF destroy /\ out.kind = "throw"
       THEN /\ last' = Last(op, Bool(destroy), "throws", <<RemoveCall(id, out)>>)
            /\ UNCHANGED <<id, genCount>>
       ELSE /\ id' = _generateId(genCount + 1)
            /\ genCount' = genCount + 1
            /\ last' = Last(op, Bool(destroy), "void",
                            IF destroy THEN <<RemoveCall(id, out)>> ELSE <<>>)

TS_regenerate(destroy, out) ==
  /\ variant = "ts" /\ nops < MaxOps
  /\ Regenerate("regenerate", destroy, out)
  /\ nops' = nops + 1
  /\ UNCHANGED <<mvars, hvars, ovars, variant, sid, started, state, lifetime, dirty, readCount>>

\* invalidate (): this.reset().regenerate(true)
TS_invalidate(out) ==
  /\ variant = "ts" /\ nops < MaxOps
  /\ state' = Store_reset(state, DUndefined)
  /\ Regenerate("invalidate", TRUE, out)
  /\ nops' = nops + 1
  /\ UNCHANGED <<mvars, hvars, ovars, variant, sid, started, lifetime, dirty, readCount>>

TS_lifetime(value) ==
  /\ variant = "ts" /\ nops < MaxOps
  /\ lifetime' = value
  /\ last' = Last("lifetime", ToString(value), "this", <<>>)
  /\ nops' = nops + 1
  /\ UNCHANGED <<mvars, hvars, ovars, variant, sid, id, started, state, dirty, genCount, readCount>>

\* Reflect.set, Reflect.get, Reflect.has and Reflect.deleteProperty throw a
\* TypeError when the store's mapping is null
TS_set(key, value) ==
  /\ variant = "ts" /\ nops < MaxOps
  /\ IF IsObject(state)
       THEN /\ state' = Store_set(state, key, value)
            /\ last' = LastWith("set", key, Entry(key, value), "this", <<>>)
       ELSE /\ last' = LastWith("set", key, Entry(key, value), "throws", <<>>)
            /\ UNCHANGED state
  /\ nops' = nops + 1
  /\ UNCHANGED <<mvars, hvars, ovars, variant, sid, id, started, lifetime, dirty, genCount, readCount>>

TS_reset(newState) ==
  /\ variant = "ts" /\ nops < MaxOps
  /\ state' = Store_reset(state, newState)
  /\ last' = LastWith("reset", newState.kind, newState, "this", <<>>)
  /\ nops' = nops + 1
  /\ UNCHANGED <<mvars, hvars, ovars, variant, sid, id, started, lifetime, dirty, genCount, readCount>>

TS_get(key) ==
  /\ variant = "ts" /\ nops < MaxOps
  /\ last' = Last("get", key, IF IsObject(state) THEN Store_get(state, key) ELSE "throws", <<>>)
  /\ nops' = nops + 1
  /\ UNCHANGED <<mvars, hvars, ovars, variant, sid, id, started, state, lifetime, dirty, genCount, readCount>>

TS_has(key) ==
  /\ variant = "ts" /\ nops < MaxOps
  /\ last' = Last("has", key, IF IsObject(state) THEN Bool(Store_has(state, key)) ELSE "throws", <<>>)
  /\ nops' = nops + 1
  /\ UNCHANGED <<mvars, hvars, ovars, variant, sid, id, started, state, lifetime, dirty, genCount, readCount>>

TS_pull(key) ==
  /\ variant = "ts" /\ nops < MaxOps
  /\ IF IsObject(state)
       THEN /\ state' = Store_delete(state, key)
            /\ last' = Last("pull", key, Store_get(state, key), <<>>)
       ELSE /\ last' = Last("pull", key, "throws", <<>>)
            /\ UNCHANGED state
  /\ nops' = nops + 1
  /\ UNCHANGED <<mvars, hvars, ovars, variant, sid, id, started, lifetime, dirty, genCount, readCount>>

(***************************************************************************)
(* Session, src/lib/session.js, lines 13-241 ("js1").  The state is the    *)
(* object the constructor was given (createSession passes {} by default).  *)
(***************************************************************************)
JS1_constructor_id(given, fresh) == IF given # "" THEN given ELSE fresh
\* this._started = sid ? true : false
JS1_constructor_started(given) == given # ""

JS_ReadOutcomes == {DUndefined, DNull, DThrow} \cup {DObject(m) : m \in InputStates}

\* the body of start() after the guard: [ret, started, state]
JS1_start_result(s, wasStarted, out) ==
  IF out.kind = "throw"
    THEN [ret |-> "throws", started |-> wasStarted, state |-> s]
    ELSE [ret |-> "true", started |-> TRUE,
          state |-> IF ~IsNullish(out) THEN DObject(ObjectAssign(s.val, out.val)) ELSE s]

\* if (this._started) return false
JS1_start_skips(isStarted) == isStarted

JS1_start(out) ==
  /\ variant = "js1" /\ nops < MaxOps
  /\ IF JS1_start_skips(started)
       THEN /\ last' = Last("start", "", "false", <<>>)
            /\ UNCHANGED <<state, started, readCount>>
       ELSE LET r == JS1_start_result(state, started, out)
            IN /\ state' = r.state
               /\ started' = r.started
               /\ readCount' = readCount + 1
               /\ last' = Last("start", "", r.ret, <<ReadCall(id, out)>>)
  /\ nops' = nops + 1
  /\ UNCHANGED <<mvars, hvars, ovars, variant, sid, id, lifetime, dirty, genCount>>

\* a commit() that always writes with the default lifetime
JS_commit_result_default_ttl(s, key, ttl, out) ==
  IF Store_isEmpty(s)
    THEN [ret |-> "false", calls |-> <<>>]
    ELSE [ret |-> IF out.kind = "throw" THEN "throws" ELSE "true",
          calls |-> <<WriteCall(key, s, TWO_HOURS, out)>>]

\* commit (): [ret, calls]; shared by both revisions of lib/session.js
JS_commit_result(s, key, ttl, out) ==
  IF Store_isEmpty(s)
    THEN [ret |-> "false", calls |-> <<>>]
    ELSE [ret |-> IF out.kind = "throw" THEN "throws" ELSE "true",
          calls |-> <<WriteCall(key, s, ttl, out)>>]

\* commit () declares no parameter: an argument of the call is ignored
JS1_commit(force, out) ==
  /\ variant = "js1" /\ nops < MaxOps
  /\ LET r == JS_commit_result(state, id, lifetime, out)
     IN last' = Last("commit", Bool(force), r.ret, r.calls)
  /\ nops' = nops + 1
  /\ UNCHANGED <<mvars, hvars, ovars, variant, sid, id, started, state, lifetime, dirty, genCount, readCount>>

JS1_regenerate(destroy, out) ==
  /\ variant = "js1" /\ nops < MaxOps
  /\ Regenerate("regenerate", destroy, out)
  /\ nops' = nops + 1
  /\ UNCHANGED <<mvars, hvars, ovars, variant, sid, started, state, lifetime, dirty, readCount>>

JS1_invalidate(out) ==
  /\ variant = "js1" /\ nops < MaxOps
  /\ state' = DObject(EmptyState)
  /\ Regenerate("invalidate", TRUE, out)
  /\ nops' = nops + 1
  /\ UNCHANGED <<mvars, hvars, ovars, variant, sid, started, lifetime, dirty, readCount>>

JS1_setLifetime(value) ==
  /\ variant = "js1" /\ nops < MaxOps
  /\ lifetime' = value
  /\ last' = Last("setLifetime", ToString(value), "this", <<>>)
  /\ nops' = nops + 1
  /\ UNCHANGED <<mvars, hvars, ovars, variant, sid, id, started, state, dirty, genCount, readCount>>

\* a query that also opens the session
Query_starts(v, op, arg, ret) ==
  /\ variant = v /\ nops < MaxOps
  /\ last' = Last(op, arg, ret, <<>>)
  /\ started' = TRUE
  /\ nops' = nops + 1
  /\ UNCHANGED <<mvars, hvars, ovars, variant, sid, id, state, lifetime, dirty, genCount, readCount>>

\* a query: nothing but the record of the call changes
Query(v, op, arg, ret) ==
  /\ variant = v /\ nops < MaxOps
  /\ last' = Last(op, arg, ret, <<>>)
  /\ nops' = nops + 1
  /\ UNCHANGED <<mvars, hvars, ovars, variant, sid, id, started, state, lifetime, dirty, genCount, readCount>>

JS1_isEmpty == Query("js1", "isEmpty", "", Bool(Store_isEmpty(state)))

JS1_set(key, value) ==
  /\ variant = "js1" /\ nops < MaxOps
  /\ state' = Store_set(state, key, value)
  /\ last' = LastWith("set", key, Entry(key, value), "this", <<>>)
  /\ nops' = nops + 1
  /\ UNCHANGED <<mvars, hvars, ovars, variant, sid, id, started, lifetime, dirty, genCount, readCount>>

\* set (object): Object.assign(this._state, key), which returns the state
JS1_setObject(object) ==
  /\ variant = "js1" /\ nops < MaxOps
  /\ state' = DObject(ObjectAssign(state.val, object))
  /\ last' = LastWith("set", "object", DObject(object), "state", <<>>)
  /\ nops' = nops + 1
  /\ UNCHANGED <<mvars, hvars, ovars, variant, sid, id, started, lifetime, dirty, genCount, readCount>>

\* reset (newState = {})
JS1_reset(newState) ==
  /\ variant = "js1" /\ nops < MaxOps
  /\ state' = DefaultArg(newState, DObject(EmptyState))
  /\ last' = LastWith("reset", newState.kind, newState, "this", <<>>)
  /\ nops' = nops + 1
  /\ UNCHANGED <<mvars, hvars, ovars, variant, sid, id, started, lifetime, dirty, genCount, readCount>>

JS1_get(key) == Query("js1", "get", key, Store_get(state, key))

JS1_has(key) == Query("js1", "has", key, Bool(Store_has(state, key)))

\* Reflect.deleteProperty answers true also when the key is not there
Reflect_deleteProperty(s, key) == TRUE

JS1_delete(key) ==
  /\ variant = "js1" /\ nops < MaxOps
  /\ state' = Store_delete(state, key)
  /\ last' = Last("delete", key, Bool(Reflect_deleteProperty(state, key)), <<>>)
  /\ nops' = nops + 1
  /\ UNCHANGED <<mvars, hvars, ovars, variant, sid, id, started, lifetime, dirty, genCount, readCount>>

JS1_pull(key) ==
  /\ variant = "js1" /\ nops < MaxOps
  /\ state' = Store_delete(state, key)
  /\ last' = Last("pull", key, Store_get(state, key), <<>>)
  /\ nops' = nops + 1
  /\ UNCHANGED <<mvars, hvars, ovars, variant, sid, id, started, lifetime, dirty, genCount, readCount>>

JS1_toJSON == Query("js1", "toJSON", "", "state")

(***************************************************************************)
(* Session, src/lib/session.js, lines 255-511 ("js2").                     *)
(***************************************************************************)
JS2_constructor_id(given, fresh) == IF given # "" THEN given ELSE fresh
\* this._started = !sid ? true : false
JS2_constructor_started(given) == given = ""

\* the body of start() after the guard: [ret, started, state, dirty]
JS2_start_result(s, wasStarted, wasDirty, out) ==
  IF out.kind = "throw"
    THEN [ret |-> "throws", started |-> wasStarted, state |-> s, dirty |-> wasDirty]
    ELSE IF IsNullish(out)
      THEN [ret |-> "false", started |-> wasStarted, state |-> s, dirty |-> wasDirty]
      ELSE [ret |-> "true", started |-> TRUE, dirty |-> FALSE,
            state |-> IF Store_isEmpty(s) THEN out
                      ELSE DObject(ObjectAssign(s.val, out.val))]

\* a start() that loads whatever the flag says
JS2_start_skips_never(isStarted) == FALSE
\* if (this._started) return false
JS2_start_skips(isStarted) == isStarted

JS2_start(out) ==
  /\ variant = "js2" /\ nops < MaxOps
  /\ IF JS2_start_skips(started)
       THEN /\ last' = Last("start", "", "false", <<>>)
            /\ UNCHANGED <<state, started, dirty, readCount>>
       ELSE LET r == JS2_start_result(state, started, dirty, out)
            IN /\ state' = r.state
               /\ started' = r.started
               /\ dirty' = r.dirty
               /\ readCount' = readCount + 1
               /\ last' = Last("start", "", r.ret, <<ReadCall(id, out)>>)
  /\ nops' = nops + 1
  /\ UNCHANGED <<mvars, hvars, ovars, variant, sid, id, lifetime, genCount>>

\* commit () declares no parameter: an argument of the call is ignored
JS2_commit(force, out) ==
  /\ variant = "js2" /\ nops < MaxOps
  /\ LET r == JS_commit_result(state, id, lifetime, out)
     IN last' = Last("commit", Bool(force), r.ret, r.calls)
  /\ nops' = nops + 1
  /\ UNCHANGED <<mvars, hvars, ovars, variant, sid, id, started, state, lifetime, dirty, genCount, readCount>>

\* a regenerate that also closes the session
JS2_regenerate_stops(destroy, out) ==
  /\ variant = "js2" /\ nops < MaxOps
  /\ Regenerate("regenerate", destroy, out)
  /\ started' = FALSE
  /\ nops' = nops + 1
  /\ UNCHANGED <<mvars, hvars, ovars, variant, sid, state, lifetime, dirty, readCount>>

JS2_regenerate(destroy, out) ==
  /\ variant = "js2" /\ nops < MaxOps
  /\ Regenerate("regenerate", destroy, out)
  /\ nops' = nops + 1
  /\ UNCHANGED <<mvars, hvars, ovars, variant, sid, started, state, lifetime, dirty, readCount>>

JS2_invalidate(out) ==
  /\ variant = "js2" /\ nops < MaxOps
  /\ state' = DObject(EmptyState)
  /\ dirty' = TRUE
  /\ Regenerate("invalidate", TRUE, out)
  /\ nops' = nops + 1
  /\ UNCHANGED <<mvars, hvars, ovars, variant, sid, started, lifetime, readCount>>

JS2_lifetime(value) ==
  /\ variant = "js2" /\ nops < MaxOps
  /\ lifetime' = value
  /\ last' = Last("lifetime", ToString(value), "this", <<>>)
  /\ nops' = nops + 1
  /\ UNCHANGED <<mvars, hvars, ovars, variant, sid, id, started, state, dirty, genCount, readCount>>

JS2_isEmpty == Query("js2", "isEmpty", "", Bool(Store_isEmpty(state)))

JS2_isDirty == Query("js2", "isDirty", "", Bool(dirty))

\* a mutator of "js2": the new state, the dirty flag set, `this` or a value back
JS2_Mutate(op, arg, input, newState, ret) ==
  /\ variant = "js2" /\ nops < MaxOps
  /\ state' = newState
  /\ dirty' = TRUE
  /\ last' = LastWith(op, arg, input, ret, <<>>)
  /\ nops' = nops + 1
  /\ UNCHANGED <<mvars, hvars, ovars, variant, sid, id, started, lifetime, genCount, readCount>>

JS2_set(key, value) ==
  JS2_Mutate("set", key, Entry(key, value), Store_set(state, key, value), "this")

JS2_merge(newState) ==
  JS2_Mutate("merge", "object", DObject(newState),
             DObject(ObjectAssign(state.val, newState)), "this")

\* reset (newState = {})
JS2_reset(newState) ==
  JS2_Mutate("reset", newState.kind, newState,
             DefaultArg(newState, DObject(EmptyState)), "this")

JS2_get(key) == Query("js2", "get", key, Store_get(state, key))

JS2_has(key) == Query("js2", "has", key, Bool(Store_has(state, key)))

\* delete sets _dirty whenever Reflect.deleteProperty answers true
JS2_delete(key) ==
  /\ variant = "js2" /\ nops < MaxOps
  /\ state' = Store_delete(state, key)
  /\ dirty' = (dirty \/ Reflect_deleteProperty(state, key))
  /\ last' = Last("delete", key, "this", <<>>)
  /\ nops' = nops + 1
  /\ UNCHANGED <<mvars, hvars, ovars, variant, sid, id, started, lifetime, genCount, readCount>>

JS2_pull(key) ==
  /\ variant = "js2" /\ nops < MaxOps
  /\ state' = Store_delete(state, key)
  /\ dirty' = (dirty \/ Reflect_deleteProperty(state, key))
  /\ last' = Last("pull", key, Store_get(state, key), <<>>)
  /\ nops' = nops + 1
  /\ UNCHANGED <<mvars, hvars, ovars, variant, sid, id, started, lifetime, genCount, readCount>>

JS2_toJSON == Query("js2", "toJSON", "", "state")

(***************************************************************************)
(* Store (src/src/store.ts) called directly: variant "store".  Only        *)
(* `state` (Store._state), the call counter and the call record move.      *)
(***************************************************************************)
\* a method of Store: the mapping after it and what it returned
Store_call(op, arg, input, newState, ret) ==
  /\ variant = "store" /\ nops < MaxOps
  /\ state' = newState
  /\ last' = LastWith(op, arg, input, ret, <<>>)
  /\ nops' = nops + 1
  /\ UNCHANGED <<mvars, hvars, ovars, variant, sid, id, started, lifetime, dirty, genCount, readCount>>

\* String(key) of a mapping passed where set expects a key
OBJECT_KEY == "[object Object]"

Store_call_set(key, value) ==
  Store_call("set", key, Entry(key, value), Store_set(state, key, value), UNDEFINED)

\* set (key, value) called with a mapping and no value: Reflect.set turns
\* the mapping into the property key "[object Object]"
Store_call_setObject(object) ==
  Store_call("set", "object", DObject(object),
             Store_set(state, OBJECT_KEY, UNDEFINED), UNDEFINED)

Store_call_reset(newState) ==
  Store_call("reset", newState.kind, newState, Store_reset(state, newState), UNDEFINED)

Store_call_merge(newState) ==
  Store_call("merge", newState.kind, newState, Store_merge(state, newState), UNDEFINED)

Store_call_get(key) ==
  Store_call("get", key, DUndefined, state, Store_get(state, key))

Store_call_has(key) ==
  Store_call("has", key, DUndefined, state, Bool(Store_has(state, key)))

\* delete (key) returns nothing
Store_call_delete(key) ==
  Store_call("delete", key, DUndefined, Store_delete(state, key), UNDEFINED)

Store_call_isEmpty ==
  Store_call("isEmpty", "", DUndefined, state, Bool(Store_isEmpty(state)))

Store_call_toJSON ==
  Store_call("toJSON", "", DUndefined, Store_toJSON(state), "state")

\* new Store(state)
Store_constructor(initial) ==
  /\ variant = "store"
  /\ sid = "" /\ id = "" /\ started = FALSE
  /\ state = DObject(initial)
  /\ lifetime = 0 /\ dirty = FALSE
  /\ genCount = 0 /\ readCount = 0 /\ nops = 0
  /\ last = LastWith("constructor", "", DObject(initial), "void", <<>>)

NextStore ==
  \/ \E key \in Keys, value \in Vals : Store_call_set(key, value)
  \/ \E object \in InputStates : Store_call_setObject(object)
  \/ \E newState \in ResetArgs : Store_call_reset(newState)
  \/ \E newState \in ResetArgs : Store_call_merge(newState)
  \/ \E key \in Keys : Store_call_get(key)
  \/ \E key \in Keys : Store_call_has(key)
  \/ \E key \in Keys : Store_call_delete(key)
  \/ Store_call_isEmpty
  \/ Store_call_toJSON

(***************************************************************************)
(* MemoryStorage (src/unnamed/part_008), the in-memory adapter.  The file  *)
(* holds two revisions of the class:                                       *)
(*   "m1" - lines 6-87, whose read purges when !_isExpired(payload);       *)
(*   "m2" - lines 95-176, whose read purges when _isExpired(payload).      *)
(* `items` is the Map of the adapter and `now` is the clock Date.now()     *)
(* reads.                                                                  *)
(***************************************************************************)
MaxNow == 3

MemoryRevisions == {"m1", "m2"}
MemorySids == {"abc", "xyz"}
MemoryData == {DObject([foo |-> "bar"]), DString([foo |-> "qux", baz |-> "bar"])}
TtlInputs == {0, 1, 2}

NoItems == [k \in {} |-> [data |-> DUndefined, expires |-> 0]]

MLast(op, key, ret) == [op |-> op, id |-> key, ret |-> ret]

\* _getExpiryTime (ttl): Date.now() + ttl
Memory_getExpiryTime(ttl, clock) == clock + ttl

\* _isExpired ({ expires }): expires >= Date.now()
Memory_isExpired(payload, clock) == payload.expires >= clock

\* this._items.set(sid, payload)
Map_set(map, key, payload) ==
  [k \in DOMAIN map \cup {key} |-> IF k = key THEN payload ELSE map[k]]

\* a delete that clears the whole Map
Map_delete_all(map, key) == NoItems

\* this._items.delete(sid)
Map_delete(map, key) == [k \in DOMAIN map \ {key} |-> map[k]]

\* the test of read() that sends it to destroy(): negated in "m1" only
Memory_read_purges(rev, payload, clock) ==
  IF rev = "m1" THEN ~Memory_isExpired(payload, clock)
                ELSE Memory_isExpired(payload, clock)

\* read (sid): [ret, items]
Memory_read_result(rev, map, key, clock) ==
  IF key \notin DOMAIN map
    THEN [ret |-> DUndefined, items |-> map]
    ELSE IF Memory_read_purges(rev, map[key], clock)
      THEN [ret |-> DUndefined, items |-> Map_delete(map, key)]
      ELSE [ret |-> map[key].data, items |-> map]

Memory_read(key) ==
  /\ LET r == Memory_read_result(mrev, items, key, now)
     IN /\ items' = r.items
        /\ mlast' = MLast("read", key, r.ret)
  /\ UNCHANGED <<svars, hvars, ovars, mrev, now>>

Memory_write(key, data, ttl) ==
  /\ items' = Map_set(items, key,
                      [data |-> data, expires |-> Memory_getExpiryTime(ttl, now)])
  /\ mlast' = MLast("write", key, DUndefined)
  /\ UNCHANGED <<svars, hvars, ovars, mrev, now>>

Memory_destroy(key) ==
  /\ items' = Map_delete(items, key)
  /\ mlast' = MLast("destroy", key, DUndefined)
  /\ UNCHANGED <<svars, hvars, ovars, mrev, now>>

\* the methods a MemoryStorage has
Memory_methods == {"read", "write", "destroy"}

\* remove (sid), the method of StorageContract that Session._destroy calls:
\* calling a method the object does not have throws a TypeError
Memory_remove_result(map, key) ==
  IF "remove" \in Memory_methods
    THEN [ret |-> DUndefined, items |-> Map_delete(map, key)]
    ELSE [ret |-> DThrow, items |-> map]

Memory_remove(key) ==
  /\ LET r == Memory_remove_result(items, key)
     IN /\ items' = r.items
        /\ mlast' = MLast("remove", key, r.ret)
  /\ UNCHANGED <<svars, hvars, ovars, mrev, now>>

\* time passes between two calls
Tick ==
  /\ now < MaxNow
  /\ now' = now + 1
  /\ mlast' = MLast("tick", "", DUndefined)
  /\ UNCHANGED <<svars, hvars, ovars, mrev, items>>

\* new MemoryStorage(): an empty Map
Memory_constructor(rev) ==
  /\ mrev = rev
  /\ items = NoItems
  /\ now = 0
  /\ mlast = MLast("constructor", "", DUndefined)

\* one mapping object, which the Store and its caller both hold
OneObject(m) ==
  /\ heap = <<m>>
  /\ ref = 1
  /\ held = 1

\* no call in flight; the objects are not looked at
Idle ==
  /\ pending = 0
  /\ OneObject(EmptyState)

\* nothing was committed yet
NoCommit == [some |-> FALSE, id |-> "", state |-> DUndefined, expires |-> 0]

(***************************************************************************)
(* The state after construction, and the specification.                    *)
(***************************************************************************)
constructor_id(v, given, fresh) ==
  CASE v = "ts" -> TS_constructor_id(given, fresh)
    [] v = "js1" -> JS1_constructor_id(given, fresh)
    [] v = "js2" -> JS2_constructor_id(given, fresh)

constructor_started(v, given) ==
  CASE v = "ts" -> TS_constructor_started(given)
    [] v = "js1" -> JS1_constructor_started(given)
    [] v = "js2" -> JS2_constructor_started(given)

\* private _state = new Store(): the constructor of src/session.ts takes
\* (storage, id) and a third argument is ignored
TS_constructor_state(initial) == DObject(EmptyState)
\* this._state = state
JS_constructor_state(initial) == DObject(initial)

constructor_state(v, initial) ==
  IF v = "ts" THEN TS_constructor_state(initial) ELSE JS_constructor_state(initial)

\* new Session(storage, sid, initial)
Constructed(v, given, initial) ==
  /\ variant = v
  /\ sid = given
  /\ id = constructor_id(v, given, _generateId(1))
  /\ started = constructor_started(v, given)
  /\ state = constructor_state(v, initial)
  /\ lifetime = TWO_HOURS
  /\ dirty = FALSE
  /\ genCount = IF given = "" THEN 1 ELSE 0
  /\ readCount = 0
  /\ nops = 0
  /\ last = LastWith("constructor", given, DObject(initial), "void", <<>>)

\* a Session over a recording stub; the in-memory adapter stays idle
Init ==
  /\ \/ \E v \in Variants, given \in SidInputs, initial \in InputStates :
          Constructed(v, given, initial)
     \/ \E initial \in InputStates : Store_constructor(initial)
  /\ Memory_constructor("m2")
  /\ committed = NoCommit
  /\ Idle

NextTS ==
  \/ \E out \in TS_ReadOutcomes : TS_start(out)
  \/ \E force \in BOOLEAN, out \in AckOutcomes : TS_commit(force, out)
  \/ \E destroy \in BOOLEAN, out \in AckOutcomes : TS_regenerate(destroy, out)
  \/ \E out \in AckOutcomes : TS_invalidate(out)
  \/ \E value \in LifetimeInputs : TS_lifetime(value)
  \/ \E key \in Keys, value \in Vals : TS_set(key, value)
  \/ \E newState \in ResetArgs : TS_reset(newState)
  \/ \E key \in Keys : TS_get(key)
  \/ \E key \in Keys : TS_has(key)
  \/ \E key \in Keys : TS_pull(key)

NextJS1 ==
  \/ \E out \in JS_ReadOutcomes : JS1_start(out)
  \/ \E force \in BOOLEAN, out \in AckOutcomes : JS1_commit(force, out)
  \/ \E destroy \in BOOLEAN, out \in AckOutcomes : JS1_regenerate(destroy, out)
  \/ \E out \in AckOutcomes : JS1_invalidate(out)
  \/ \E value \in LifetimeInputs : JS1_setLifetime(value)
  \/ JS1_isEmpty
  \/ \E key \in Keys, value \in Vals : JS1_set(key, value)
  \/ \E object \in InputStates : JS1_setObject(object)
  \/ \E newState \in ResetArgs : JS1_reset(newState)
  \/ \E key \in Keys : JS1_get(key)
  \/ \E key \in Keys : JS1_has(key)
  \/ \E key \in Keys : JS1_delete(key)
  \/ \E key \in Keys : JS1_pull(key)
  \/ JS1_toJSON

NextJS2 ==
  \/ \E out \in JS_ReadOutcomes : JS2_start(out)
  \/ \E force \in BOOLEAN, out \in AckOutcomes : JS2_commit(force, out)
  \/ \E destroy \in BOOLEAN, out \in AckOutcomes : JS2_regenerate(destroy, out)
  \/ \E out \in AckOutcomes : JS2_invalidate(out)
  \/ \E value \in LifetimeInputs : JS2_lifetime(value)
  \/ JS2_isEmpty
  \/ JS2_isDirty
  \/ \E key \in Keys, value \in Vals : JS2_set(key, value)
  \/ \E newState \in InputStates : JS2_merge(newState)
  \/ \E newState \in ResetArgs : JS2_reset(newState)
  \/ \E key \in Keys : JS2_get(key)
  \/ \E key \in Keys : JS2_has(key)
  \/ \E key \in Keys : JS2_delete(key)
  \/ \E key \in Keys : JS2_pull(key)
  \/ JS2_toJSON

Next == NextTS \/ NextJS1 \/ NextJS2 \/ NextStore

TypeOK ==
  /\ variant \in Variants \cup {"store"}
  /\ sid \in SidInputs
  /\ id \in {"", "abc"} \cup {_generateId(n) : n \in 1..(MaxOps + 1)}
  /\ started \in BOOLEAN
  /\ state.kind \in {"object", "null"}
  /\ DOMAIN state.val \subseteq Keys \cup {OBJECT_KEY}
  /\ \A k \in DOMAIN state.val : state.val[k] \in Vals \cup {UNDEFINED}
  /\ lifetime \in {0, TWO_HOURS} \cup LifetimeInputs
  /\ dirty \in BOOLEAN
  /\ genCount \in 0..(MaxOps + 1)
  /\ readCount \in 0..MaxOps
  /\ nops \in 0..MaxOps
  /\ mrev \in MemoryRevisions
  /\ DOMAIN items \subseteq MemorySids
  /\ \A k \in DOMAIN items :
       /\ items[k].data \in MemoryData
       /\ items[k].expires \in 0..(MaxNow + 2)
  /\ now \in 0..MaxNow
  /\ committed = NoCommit
  /\ pending = 0
  /\ heap = <<EmptyState>> /\ ref = 1 /\ held = 1

Spec == Init /\ [][Next]_vars

\* a MemoryStorage on its own; the Session stays as constructed
InitMemory ==
  /\ Constructed("ts", "", EmptyState)
  /\ \E rev \in MemoryRevisions : Memory_constructor(rev)
  /\ committed = NoCommit
  /\ Idle

NextMemory ==
  \/ \E key \in MemorySids : Memory_read(key)
  \/ \E key \in MemorySids, data \in MemoryData, ttl \in TtlInputs :
       Memory_write(key, data, ttl)
  \/ \E key \in MemorySids : Memory_destroy(key)
  \/ \E key \in MemorySids : Memory_remove(key)
  \/ Tick

SpecMemory == InitMemory /\ [][NextMemory]_vars

(***************************************************************************)
(* A Session of src/src/session.ts on a MemoryStorage: start() reads from  *)
(* the adapter and commit() writes to it.  A second Session on the same    *)
(* adapter is one more construction.  `committed` remembers what the last  *)
(* commit() that wrote held in memory, and until when the entry is to live.*)
(***************************************************************************)
RoundTripLifetimes == {1}

RoundTrip_start ==
  /\ variant = "ts" /\ nops < MaxOps
  /\ IF TS_start_skips(started)
       THEN /\ last' = Last("start", "", TS_start_ret, <<>>)
            /\ UNCHANGED <<state, started, readCount, items, mlast>>
       ELSE LET r == Memory_read_result(mrev, items, id, now)
            IN /\ items' = r.items
               /\ mlast' = MLast("read", id, r.ret)
               /\ state' = TS_start_state(state, r.ret)
               /\ started' = TS_start_started
               /\ readCount' = readCount + 1
               /\ last' = Last("start", "", TS_start_ret, <<ReadCall(id, r.ret)>>)
  /\ nops' = nops + 1
  /\ UNCHANGED <<hvars, ovars, variant, sid, id, lifetime, dirty, genCount, mrev, now>>

RoundTrip_commit ==
  /\ variant = "ts" /\ nops < MaxOps
  /\ IF ~started
       THEN /\ last' = Last("commit", "false", "void", <<>>)
            /\ UNCHANGED <<started, items, mlast, committed>>
       ELSE LET data == JSON_stringify(state)
            IN /\ items' = Map_set(items, id,
                     [data |-> data, expires |-> Memory_getExpiryTime(lifetime, now)])
               /\ mlast' = MLast("write", id, DUndefined)
               /\ committed' = [some |-> TRUE, id |-> id, state |-> state,
                                expires |-> now + lifetime]
               /\ started' = TS_commit_started
               /\ last' = Last("commit", "false", "void",
                               <<WriteCall(id, data, lifetime, DUndefined)>>)
  /\ nops' = nops + 1
  /\ UNCHANGED <<ovars, variant, sid, id, state, lifetime, dirty, genCount, readCount, mrev, now>>

\* how many identifiers the sessions on one adapter may generate
MaxGen == 1

\* regenerate (destroy) with _destroy() calling remove on the MemoryStorage
RoundTrip_regenerate(destroy) ==
  /\ variant = "ts" /\ nops < MaxOps /\ genCount < MaxGen
  /\ LET r == Memory_remove_result(items, id)
     IN /\ Regenerate("regenerate", destroy, r.ret)
        /\ IF destroy
             THEN items' = r.items /\ mlast' = MLast("remove", id, r.ret)
             ELSE UNCHANGED <<items, mlast>>
  /\ nops' = nops + 1
  /\ UNCHANGED <<hvars, ovars, variant, sid, started, state, lifetime, dirty, readCount, mrev, now>>

RoundTrip_invalidate ==
  /\ variant = "ts" /\ nops < MaxOps /\ genCount < MaxGen
  /\ state' = Store_reset(state, DUndefined)
  /\ LET r == Memory_remove_result(items, id)
     IN /\ Regenerate("invalidate", TRUE, r.ret)
        /\ items' = r.items
        /\ mlast' = MLast("remove", id, r.ret)
  /\ nops' = nops + 1
  /\ UNCHANGED <<hvars, ovars, variant, sid, started, lifetime, dirty, readCount, mrev, now>>

\* the ids the sessions on one adapter are constructed with
RoundTripSids == {"abc", "xyz"}

\* new Session(storage, given) on the adapter in use
RoundTrip_new(given) ==
  /\ variant' = "ts"
  /\ sid' = given
  /\ id' = TS_constructor_id(given, _generateId(1))
  /\ started' = TS_constructor_started(given)
  /\ state' = DObject(EmptyState)
  /\ lifetime' = TWO_HOURS
  /\ dirty' = FALSE
  /\ genCount' = genCount
  /\ readCount' = 0
  /\ nops' = 0
  /\ last' = Last("constructor", given, "void", <<>>)
  /\ UNCHANGED <<mvars, hvars, ovars>>

InitRoundTrip ==
  /\ Constructed("ts", "abc", EmptyState)
  /\ \E rev \in MemoryRevisions : Memory_constructor(rev)
  /\ committed = NoCommit
  /\ Idle

NextRoundTrip ==
  \/ RoundTrip_start
  \/ RoundTrip_commit
  \/ RoundTrip_new("abc")
  \/ \E key \in Keys, value \in Vals \cup {UNDEFINED} : TS_set(key, value)
  \/ \E value \in RoundTripLifetimes : TS_lifetime(value)
  \/ Tick

SpecRoundTrip == InitRoundTrip /\ [][NextRoundTrip]_vars

(***************************************************************************)
(* Sessions of src/src/session.ts with different ids on one MemoryStorage: *)
(* one Session after the other is constructed on the adapter and works on  *)
(* it, regeneration and invalidation included.                             *)
(***************************************************************************)
NextShared ==
  \/ RoundTrip_start
  \/ RoundTrip_commit
  \/ \E destroy \in BOOLEAN : RoundTrip_regenerate(destroy)
  \/ RoundTrip_invalidate
  \/ \E given \in RoundTripSids : RoundTrip_new(given)
  \/ TS_set("foo", "bar")

SpecShared == InitRoundTrip /\ [][NextShared]_vars

(***************************************************************************)
(* start() called again while an earlier start() is suspended.  start()    *)
(* tests _started, awaits the adapter's read and sets _started only after  *)
(* the await: the call is two steps, up to the await and from it on.       *)
(***************************************************************************)
ConcurrentVariants == {"ts", "js2"}

\* the read was invoked and has not settled
DPending == [kind |-> "pending", val |-> EmptyState]

\* start() up to `await this._read()`
Concurrent_start_call ==
  /\ variant \in ConcurrentVariants /\ nops < MaxOps
  /\ IF (IF variant = "ts" THEN TS_start_skips(started) ELSE JS2_start_skips(started))
       THEN /\ last' = Last("start", "", IF variant = "ts" THEN TS_start_ret ELSE "false", <<>>)
            /\ UNCHANGED <<readCount, pending>>
       ELSE /\ readCount' = readCount + 1
            /\ pending' = pending + 1
            /\ last' = Last("start", "", "pending", <<ReadCall(id, DPending)>>)
  /\ nops' = nops + 1
  /\ UNCHANGED <<mvars, hvars, avars, variant, sid, id, started, state, lifetime, dirty, genCount>>

\* start() from the await on, once the read has settled with `out`
Concurrent_start_resume(out) ==
  /\ pending > 0
  /\ pending' = pending - 1
  /\ IF variant = "ts"
       THEN /\ state' = TS_start_state(state, out)
            /\ started' = TS_start_started
            /\ last' = Last("start", "", TS_start_ret, <<ReadCall(id, out)>>)
            /\ UNCHANGED dirty
       ELSE LET r == JS2_start_result(state, started, dirty, out)
            IN /\ state' = r.state
               /\ started' = r.started
               /\ dirty' = r.dirty
               /\ last' = Last("start", "", r.ret, <<ReadCall(id, out)>>)
  /\ UNCHANGED <<mvars, hvars, avars, variant, sid, id, lifetime, genCount, readCount, nops>>

InitConcurrent ==
  /\ \E v \in ConcurrentVariants, given \in SidInputs, initial \in InputStates :
       Constructed(v, given, initial)
  /\ Memory_constructor("m2")
  /\ committed = NoCommit
  /\ Idle

NextConcurrent ==
  \/ Concurrent_start_call
  \/ \E out \in TS_ReadOutcomes :
       /\ variant = "ts" \/ out \in JS_ReadOutcomes
       /\ Concurrent_start_resume(out)
  \/ \E key \in Keys, value \in Vals : TS_set(key, value)
  \/ \E key \in Keys, value \in Vals : JS2_set(key, value)

SpecConcurrent == InitConcurrent /\ [][NextConcurrent]_vars

(***************************************************************************)
(* The Store and the mapping objects it shares with its caller.  `heap`    *)
(* holds the objects, `ref` is Store._state and `held` is the reference    *)
(* the caller got from the constructor call or from toJSON(); `state` is   *)
(* what Store._state refers to.  An argument of reset or merge is an       *)
(* object of its own.                                                      *)
(***************************************************************************)
\* merge: this.isEmpty() ? this.reset(state) : Object.assign(...): a merge
\* that never takes over its argument
Store_merge_rebinds_never(s) == FALSE
\* the test of merge that makes the Store hold the argument itself
Store_merge_rebinds(s) == Store_isEmpty(s)

\* the object at reference r holds the mapping m
Written(h, r, m) == [h EXCEPT ![r] = m]

\* a method of Store on the heap
Alias_call(op, arg, input, newHeap, newRef, ret) ==
  /\ variant = "store" /\ nops < MaxOps
  /\ heap' = newHeap
  /\ ref' = newRef
  /\ state' = DObject(newHeap[newRef])
  /\ last' = LastWith(op, arg, input, ret, <<>>)
  /\ nops' = nops + 1
  /\ UNCHANGED <<mvars, hvars, cvars, held, variant, sid, id, started, lifetime, dirty, genCount, readCount>>

\* Reflect.set(this._state, key, value)
Alias_set(key, value) ==
  Alias_call("set", key, Entry(key, value),
             Written(heap, ref, Store_set(state, key, value).val), ref, UNDEFINED)

\* Reflect.deleteProperty(this._state, key)
Alias_delete(key) ==
  Alias_call("delete", key, DUndefined,
             Written(heap, ref, Store_delete(state, key).val), ref, UNDEFINED)

\* this._state = state
Alias_reset(newState) ==
  Alias_call("reset", newState.kind, newState,
             Append(heap, Store_reset(state, newState).val), Len(heap) + 1, UNDEFINED)

Alias_merge(newState) ==
  IF Store_merge_rebinds(state)
    THEN Alias_call("merge", newState.kind, newState,
                    Append(heap, Store_merge(state, newState).val), Len(heap) + 1,
                    UNDEFINED)
    ELSE Alias_call("merge", newState.kind, newState,
                    Written(heap, ref, Store_merge(state, newState).val), ref,
                    UNDEFINED)

\* toJSON () returns this._state
Alias_toJSON ==
  /\ variant = "store" /\ nops < MaxOps
  /\ held' = ref
  /\ last' = Last("toJSON", "", "state", <<>>)
  /\ nops' = nops + 1
  /\ UNCHANGED <<svars_but_call, mvars, hvars, cvars, heap, ref>>

\* m = {...}; new Store(m)
InitAlias ==
  /\ \E initial \in InputStates :
       /\ Store_constructor(initial)
       /\ OneObject(initial)
  /\ pending = 0
  /\ Memory_constructor("m2")
  /\ committed = NoCommit

NextAlias ==
  \/ \E key \in Keys, value \in Vals : Alias_set(key, value)
  \/ \E key \in Keys : Alias_delete(key)
  \/ \E newState \in ResetArgs : Alias_reset(newState)
  \/ \E newState \in ResetArgs : Alias_merge(newState)
  \/ Alias_toJSON

SpecAlias == InitAlias /\ [][NextAlias]_vars

(***************************************************************************)
(* The claims.  A formula about one call compares the state before the     *)
(* call (unprimed) with the state after it (primed); `last` names the call *)
(* and lists the adapter calls it made.                                    *)
(***************************************************************************)
ReadsIn(calls) == Cardinality({i \in DOMAIN calls : calls[i].fn = "read"})

\* C1: on a session constructed with an explicit id and not yet started,
\* when read answers a present mapping D, start() invokes read exactly once
\* with the session's id, afterwards get(k) = D[k] for every key k of D, the
\* session is started and start() returned true.
C1_Claim ==
  [][(/\ sid # "" /\ ~started /\ last'.op = "start"
      /\ (last'.calls = <<>> \/ IsObject(last'.calls[1].result)))
     => /\ Len(last'.calls) = 1
        /\ last'.calls[1].fn = "read"
        /\ last'.calls[1].id = id
        /\ \A k \in DOMAIN last'.calls[1].result.val :
             Store_get(state', k) = last'.calls[1].result.val[k]
        /\ started'
        /\ last'.ret = "true"]_vars

C3_Claim ==
  [][(/\ ~started /\ last'.op = "start" /\ Len(last'.calls) = 1
      /\ IsNullish(last'.calls[1].result))
     => (started' /\ last'.ret = "true")]_vars

\* C4: when read throws during start() on a not yet started session, start()
\* does not propagate the error: it returns true, the session is started and
\* the state is what it was before the call.
C4_Claim ==
  [][(/\ ~started /\ last'.op = "start" /\ Len(last'.calls) = 1
      /\ last'.calls[1].result.kind = "throw")
     => (last'.ret = "true" /\ started' /\ state' = state)]_vars

C7_Claim ==
  (variant \in Variants /\ nops = 0 /\ sid = "")
    => /\ started
       /\ id = _generateId(1) /\ id # ""
       /\ last.calls = <<>> /\ readCount = 0

\* C8: constructing a Session with an explicit non-empty id yields a session
\* whose id is the given one and which is not started; it stays not started
\* until start() is called.
C8_Claim ==
  /\ sid # "" => (id = sid /\ ~started)
  /\ [][(sid # "" /\ ~started /\ last'.op # "start") => ~started']_vars

\* C9: commit() on a session whose state is not empty, started or not,
\* invokes write exactly once with the session's id, its state (as it is or
\* serialized) and its lifetime, and returns true when the write succeeds.
C9_Claim ==
  (last.op = "commit" /\ IsObject(state) /\ ~Store_isEmpty(state))
    => /\ Len(last.calls) = 1
       /\ last.calls[1].fn = "write"
       /\ last.calls[1].id = id
       /\ last.calls[1].data \in {Store_toJSON(state), JSON_stringify(state)}
       /\ last.calls[1].ttl = lifetime
       /\ last.calls[1].result.kind # "throw" => last.ret = "true"

\* C10: commit() without force on a session whose state is empty invokes no
\* write and returns true.
C10_Claim ==
  (last.op = "commit" /\ last.arg = "false" /\ IsObject(state) /\ Store_isEmpty(state))
    => (last.calls = <<>> /\ last.ret = "true")

\* C11: commit(true) on a session whose state is empty still invokes the
\* adapter's write, with the empty state (as it is or serialized) as payload.
C11_Claim ==
  (last.op = "commit" /\ last.arg = "true" /\ IsObject(state) /\ Store_isEmpty(state))
    => /\ Len(last.calls) = 1
       /\ last.calls[1].fn = "write"
       /\ last.calls[1].data \in {DObject(EmptyState), DString(EmptyState)}

\* C12: when the adapter's write throws during commit(), commit() does not
\* raise: it returns false, and the state and the id are unchanged.
C12_Claim ==
  [][(/\ last'.op = "commit" /\ Len(last'.calls) = 1
      /\ last'.calls[1].fn = "write" /\ last'.calls[1].result.kind = "throw")
     => (last'.ret = "false" /\ state' = state /\ id' = id)]_vars

\* C13: after invalidate() completes on a session with any state and id I,
\* the state is empty, the adapter's remove was invoked with I and the
\* session's id differs from I.
C13_Claim ==
  [][(last'.op = "invalidate" /\ last'.ret # "throws")
     => /\ state' = DObject(EmptyState)
        /\ Len(last'.calls) = 1
        /\ last'.calls[1].fn = "remove" /\ last'.calls[1].id = id
        /\ id' # id]_vars

\* an invalidate() that completed on a session that held a key before it: the
\* state is empty and the removed id is not the session's id any more
C13_Witness ==
  /\ variant = "ts" /\ nops = 2 /\ last.op = "invalidate" /\ last.ret = "void"
  /\ Store_isEmpty(state) /\ last.calls[1].id = "abc" /\ id # "abc"

\* C14: regenerate(true) invokes the adapter's remove exactly once, with the
\* id the session had before the call, and after it completes the session's
\* id differs from that old id.
C14_Claim ==
  [][(last'.op = "regenerate" /\ last'.arg = "true")
     => /\ Len(last'.calls) = 1
        /\ last'.calls[1].fn = "remove" /\ last'.calls[1].id = id
        /\ last'.ret # "throws" => id' # id]_vars

\* a regenerate(true) that completed: one remove, for an id the session left
C14_Witness ==
  /\ last.op = "regenerate" /\ last.arg = "true" /\ last.ret = "void"
  /\ Len(last.calls) = 1 /\ last.calls[1].fn = "remove" /\ last.calls[1].id # id

\* C15: regenerate() / regenerate(false) replaces the session's id with a
\* newly generated one and invokes none of remove, read and write.
C15_Claim ==
  [][(last'.op = "regenerate" /\ last'.arg = "false")
     => /\ id' # id /\ id' # sid
        /\ genCount' = genCount + 1 /\ id' = _generateId(genCount')
        /\ last'.calls = <<>> /\ readCount' = readCount]_vars

\* a regenerate(false) on a session that was given its id
C15_Witness ==
  /\ sid = "abc" /\ nops = 1 /\ last.op = "regenerate" /\ last.arg = "false"
  /\ id # "abc" /\ last.calls = <<>>

\* C16: regenerate(destroy), with either value of destroy, leaves the state
\* (every key and value), the started flag and the lifetime unchanged; of the
\* session's fields only the id changes.
C16_Claim ==
  [][last'.op = "regenerate"
     => /\ state' = state /\ started' = started /\ lifetime' = lifetime
        /\ dirty' = dirty]_vars

\* a regenerate(true) on a started session that holds keys and a lifetime of
\* its own
C16_Witness ==
  /\ last.op = "regenerate" /\ last.arg = "true" /\ id # sid
  /\ started /\ ~Store_isEmpty(state) /\ lifetime # TWO_HOURS

\* C17: when the adapter's remove throws during regenerate(true) or
\* invalidate(), the error is not propagated and the session still gets a
\* newly generated id different from the old one.
C17_Claim ==
  [][(/\ last'.op \in {"regenerate", "invalidate"} /\ Len(last'.calls) = 1
      /\ last'.calls[1].fn = "remove" /\ last'.calls[1].result.kind = "throw")
     => (last'.ret # "throws" /\ id' # id)]_vars

\* C18: when the serializer's parse fails on the data read returned during
\* start() (src/session.ts, the revision with a serializer), start() does
\* not throw, the session ends up started and the state is what it was
\* before the call.
C18_Claim ==
  [][(/\ variant = "ts" /\ ~started /\ last'.op = "start" /\ Len(last'.calls) = 1
      /\ last'.calls[1].result.kind # "throw"
      /\ ~JSON_parse(last'.calls[1].result).ok)
     => (last'.ret # "throws" /\ started' /\ state' = state)]_vars

\* a start() that read a text that is no JSON on a session that holds a key
C18_Witness ==
  /\ variant = "ts" /\ last.op = "start" /\ Len(last.calls) = 1
  /\ last.calls[1].result = DMalformed
  /\ started /\ ~Store_isEmpty(state)

C20_Claim ==
  [][(/\ mlast'.op = "read" /\ mlast'.id \in DOMAIN items
      /\ now < items[mlast'.id].expires)
     => /\ mlast'.ret = items[mlast'.id].data
        /\ mlast'.id \in DOMAIN items'
        /\ items'[mlast'.id] = items[mlast'.id]]_vars

\* C21: in the in-memory adapter read(id) returns an absent value when no
\* entry exists for id or when the entry's expiry time has passed, and in
\* the expired case that read removes the entry from the map.
C21_Claim ==
  [][mlast'.op = "read"
     => /\ mlast'.id \notin DOMAIN items => mlast'.ret = DUndefined
        /\ (mlast'.id \in DOMAIN items /\ now > items[mlast'.id].expires)
             => (mlast'.ret = DUndefined /\ mlast'.id \notin DOMAIN items')]_vars

\* C22: the in-memory adapter provides remove(id): it deletes the entry
\* stored under id, so that a following read(id) is absent; it is a no-op
\* when no entry exists; it leaves the entries under every other id alone.
C22_Claim ==
  [][mlast'.op = "remove"
     => /\ mlast'.ret # DThrow
        /\ mlast'.id \notin DOMAIN items'
        /\ Memory_read_result(mrev, items', mlast'.id, now).ret = DUndefined
        /\ mlast'.id \notin DOMAIN items => items' = items
        /\ \A k \in MemorySids \ {mlast'.id} :
             /\ k \in DOMAIN items' <=> k \in DOMAIN items
             /\ k \in DOMAIN items => items'[k] = items[k]]_vars

\* C23: for every key k and value v, after set(k, v) get(k) returns v and
\* has(k) is true; set again on the same key, the last value wins and the
\* key appears once (the keys are the old ones and k).
C23_Claim ==
  [][(last'.op = "set" /\ last'.arg \in Keys /\ IsObject(state))
     => /\ Store_get(state', last'.arg) = last'.input.val[last'.arg]
        /\ Store_has(state', last'.arg)
        /\ DOMAIN state'.val = DOMAIN state.val \cup {last'.arg}]_vars

\* a set of Store on a key that holds the value it was given
C23_Witness ==
  /\ variant = "store" /\ nops = 2 /\ last.op = "set" /\ last.arg = "foo"
  /\ last.input = Entry("foo", "qux") /\ state.val["foo"] = "qux"

\* C24: after any sequence of operations isEmpty() is true exactly when the
\* mapping has zero keys; delete(k) on a store that holds no key but k (as
\* after set(k, v) on an empty store) leaves it empty.
C24_Claim ==
  /\ [][last'.op = "isEmpty"
          => last'.ret = Bool(Cardinality(DOMAIN state'.val) = 0)]_vars
  /\ [][(last'.op = "delete" /\ DOMAIN state.val \subseteq {last'.arg})
          => Cardinality(DOMAIN state'.val) = 0]_vars

\* an isEmpty() of Store that answered true after two other calls
C24_Witness ==
  /\ variant = "store" /\ nops = 3 /\ last.op = "isEmpty" /\ last.ret = "true"

\* C25: pull(k) returns the value get(k) had right before the call (the
\* absent value when k was not present); afterwards has(k) is false and
\* every other key keeps its value.
C25_Claim ==
  [][(last'.op = "pull" /\ IsObject(state))
     => /\ last'.ret = (IF last'.arg \in DOMAIN state.val
                          THEN state.val[last'.arg] ELSE UNDEFINED)
        /\ ~Store_has(state', last'.arg)
        /\ DOMAIN state'.val = DOMAIN state.val \ {last'.arg}
        /\ \A k \in DOMAIN state'.val : state'.val[k] = state.val[k]]_vars

\* a pull that returned a value and left another key behind
C25_Witness ==
  /\ last.op = "pull" /\ last.arg = "foo" /\ last.ret = "qux"
  /\ DOMAIN state.val = {"baz"}

Overridden(m, n, r) ==
  /\ DOMAIN r = DOMAIN m \cup DOMAIN n
  /\ \A k \in DOMAIN n : r[k] = n[k]
  /\ \A k \in DOMAIN m \ DOMAIN n : r[k] = m[k]

\* C27: after merge(newState) on a store holding S the mapping is S
\* overridden by newState: every key of newState has newState's value, every
\* other key of S keeps its value and no other key is present; also when S
\* is empty.
C27_Claim ==
  [][(last'.op = "merge" /\ IsObject(last'.input))
     => Overridden(state.val, last'.input.val, state'.val)]_vars

\* a merge of Store that overrode one key and kept another
C27_Witness ==
  /\ variant = "store" /\ last.op = "merge" /\ last.input = DObject([foo |-> "bar"])
  /\ state = DObject([foo |-> "bar", baz |-> "bar"])

\* C28: delete(k) removes k when present and returns whether a key was
\* removed (true if k was present before the call, false if not); a second
\* delete(k) leaves the state unchanged.
C28_Claim ==
  [][last'.op = "delete"
     => /\ last'.ret = Bool(last'.arg \in DOMAIN state.val)
        /\ last'.arg \notin DOMAIN state'.val
        /\ last'.arg \notin DOMAIN state.val => state' = state]_vars

\* C29: set(mapping), the bulk overload, shallow-merges every entry of the
\* mapping into the state: overlapping keys take the mapping's value and
\* every other key is preserved.
C29_Claim ==
  [][(last'.op = "set" /\ last'.arg = "object")
     => Overridden(state.val, last'.input.val, state'.val)]_vars

\* C30: round trip through the in-memory adapter: when a session with id I
\* has committed a non-empty state S, a new Session constructed with id I on
\* the same adapter and started before the lifetime elapses has state S
\* after start().
C30_Claim ==
  [][(/\ last'.op = "start" /\ nops = 0 /\ ~started
      /\ committed.some /\ committed.id = id
      /\ ~Store_isEmpty(committed.state)
      /\ now < committed.expires)
     => state' = committed.state]_vars

\* C31: for a Session on the reference in-memory adapter, after a commit
\* that stored a record under id I, invalidate() completes and leaves no
\* persisted record under I in the adapter's map.
C31_Claim ==
  [][(nops' = nops + 1 /\ last'.op = "invalidate" /\ id \in DOMAIN items)
     => (last'.ret # "throws" /\ id \notin DOMAIN items')]_vars

C33_Claim ==
  /\ (variant \in Variants /\ nops = 0)
       => \A k \in DOMAIN last.input.val : Store_get(state, k) = last.input.val[k]
  /\ [][(/\ variant \in Variants /\ nops = 0 /\ last'.op = "pull"
         /\ last'.arg \in DOMAIN last.input.val)
        => last'.ret = last.input.val[last'.arg]]_vars

\* C34: a start() invoked on a not yet started Session while an earlier
\* start() is suspended at the adapter's read invokes no further read.
C34_Claim == [][pending >= 1 => readCount' = readCount]_vars

\* C35 as stated: the Store shares its mapping with its caller: a set(k, v)
\* shows as m[k] = v in the mapping the caller holds, and after any later
\* set, delete or merge the mapping toJSON() returned earlier shows the same
\* keys and values as the store.
C35_Claim ==
  [][(/\ held = ref /\ nops' = nops + 1
      /\ last'.op \in {"set", "delete", "merge"})
     => /\ heap'[held'] = heap'[ref']
        /\ last'.op = "set"
             => heap'[held'][last'.arg] = last'.input.val[last'.arg]]_vars

\* C35 as amended: the same for set, for delete and for a merge on a store
\* that is not empty; a merge on an empty store makes the store hold the
\* argument mapping itself, and the mapping the caller held stays as it was.
C35_Amended ==
  [][(/\ held = ref /\ nops' = nops + 1
      /\ last'.op \in {"set", "delete", "merge"})
     => IF last'.op = "merge" /\ Cardinality(DOMAIN heap[ref]) = 0
          THEN /\ ref' # ref
               /\ heap'[held'] = heap[held]
               /\ heap'[ref'] = (IF IsObject(last'.input) THEN last'.input.val
                                 ELSE EmptyState)
          ELSE /\ ref' = ref
               /\ heap'[held'] = heap'[ref']
               /\ last'.op = "set"
                    => heap'[held'][last'.arg] = last'.input.val[last'.arg]]_vars

\* a merge on an empty store after which the mapping the caller holds is
\* still empty and the store is not
C35_Witness ==
  /\ last.op = "merge" /\ held # ref
  /\ heap[held] = EmptyState /\ heap[ref] = [foo |-> "bar"]

\* C36: sessions with different ids on one adapter are independent: start,
\* commit, regenerate and invalidate call the adapter with the session's own
\* current id only, and the record under any other id is neither read nor
\* overwritten nor removed.
C36_Claim ==
  [][nops' = nops + 1
     => /\ \A i \in DOMAIN last'.calls : last'.calls[i].id = id
        /\ mlast' # mlast => mlast'.id = id
        /\ \A k \in DOMAIN items \ {id} :
             k \in DOMAIN items' /\ items'[k] = items[k]]_vars

\* a commit of the session "xyz" next to the record of the session "abc"
C36_Witness ==
  /\ id = "xyz" /\ last.op = "commit" /\ Len(last.calls) = 1
  /\ DOMAIN items = {"abc", "xyz"}
  /\ items["abc"].data = DString([foo |-> "bar"])

\* the state operations of a Session
StateOps ==
  {"set", "get", "has", "delete", "pull", "reset", "merge", "isEmpty", "toJSON"}

\* C37: set, get, has, delete, pull, reset, merge, isEmpty and toJSON of a
\* Session never invoke read, write or remove and never change the session's
\* id, started flag or lifetime.
C37_Claim ==
  [][(variant \in Variants /\ last'.op \in StateOps)
     => /\ last'.calls = <<>> /\ readCount' = readCount
        /\ id' = id /\ started' = started /\ lifetime' = lifetime]_vars

\* a has() on a session that is not started and has a lifetime of its own
C37_Witness ==
  /\ variant = "js1" /\ last.op = "has" /\ ~started /\ lifetime = 1000
  /\ last.calls = <<>>

====
